---- MODULE Spec2Model ----
(***************************************************************************)
(* Canvas-Bulk-Downloader: the batch program (cbd.py) and the GUI program  *)
(* (cbd_exe.py) as one state machine.  Strings are sequences of one-       *)
(* character strings, so that sanitising, path building, href parsing and  *)
(* the skip-list text format are computed as the code computes them.       *)
(***************************************************************************)
EXTENDS Integers, Sequences, FiniteSets, TLC

(***************************************************************************)
(* Python string primitives used by the code                               *)
(***************************************************************************)

\* s[i:i+len(sub)] == sub
StartsAt(s, sub, i) ==
    /\ i >= 1
    /\ i + Len(sub) - 1 <= Len(s)
    /\ SubSeq(s, i, i + Len(sub) - 1) = sub

\* the first position >= i at which sub occurs in s (0 when there is none)
RECURSIVE FindFrom(_, _, _)
FindFrom(s, sub, i) ==
    IF i + Len(sub) - 1 > Len(s)
    THEN 0
    ELSE IF StartsAt(s, sub, i) THEN i ELSE FindFrom(s, sub, i + 1)

\* s.find(sub) + 1 (0 when sub does not occur)
FindFirst(s, sub) == FindFrom(s, sub, 1)

\* sub in s
Contains(s, sub) == FindFirst(s, sub) # 0

\* s.split(sep), sep non-empty: the pieces between the occurrences of sep
RECURSIVE Split(_, _)
Split(s, sep) ==
    LET i == FindFirst(s, sep)
    IN  IF i = 0
        THEN <<s>>
        ELSE <<SubSeq(s, 1, i - 1)>> \o Split(SubSeq(s, i + Len(sep), Len(s)), sep)

Last(seq) == seq[Len(seq)]

Whitespace == {" ", "\t", "\n", "\r"}

\* s.lstrip()
RECURSIVE LStrip(_)
LStrip(s) ==
    IF s # <<>> /\ Head(s) \in Whitespace THEN LStrip(Tail(s)) ELSE s

\* s.rstrip()
RECURSIVE RStrip(_)
RStrip(s) ==
    IF s # <<>> /\ Last(s) \in Whitespace
    THEN RStrip(SubSeq(s, 1, Len(s) - 1))
    ELSE s

\* s.strip()
Strip(s) == RStrip(LStrip(s))

\* c.lower() for the letters the model's names use
Lower(c) ==
    CASE c = "A" -> "a" [] c = "F" -> "f" [] c = "L" -> "l" [] c = "M" -> "m"
      [] c = "O" -> "o" [] c = "P" -> "p" [] c = "V" -> "v" [] c = "W" -> "w"
      [] c = "I" -> "i" [] c = "G" -> "g" [] c = "B" -> "b" [] c = "E" -> "e"
      [] OTHER -> c

LowerStr(s) == [i \in 1..Len(s) |-> Lower(s[i])]

(***************************************************************************)
(* NameSanitizer: make_valid_folder_name                                   *)
(***************************************************************************)

\* the truncation length of make_valid_folder_name
MaxNameLen == 120

\* the keys of the translation table rep
InvalidChars == {"\\", "/", ":", "*", "?", "\"", "<", ">", "|"}

\* output.translate(rep)
Translate(s) == [i \in 1..Len(s) |-> IF s[i] \in InvalidChars THEN "_" ELSE s[i]]

\* output after truncation, translation and strip (cbd.py lines 20-32)
Stripped(input_name) ==
    LET output == IF Len(input_name) > MaxNameLen
                  THEN SubSeq(input_name, 1, MaxNameLen)
                  ELSE input_name
    IN  Strip(Translate(output))

\* output[-1] on an empty string raises IndexError (folder names only)
make_valid_folder_name_raises(input_name, is_file) ==
    ~is_file /\ Stripped(input_name) = <<>>

TrailingPeriods(output) ==
    IF Len(output) >= 2 /\ SubSeq(output, Len(output) - 1, Len(output)) = <<".", ".">>
    THEN Split(output, <<".", ".">>)[1]
    ELSE SubSeq(output, 1, Len(output) - 1)

\* the value make_valid_folder_name returns when it does not raise
make_valid_folder_name(input_name, is_file) ==
    LET output == Stripped(input_name)
    IN  IF is_file \/ output = <<>>
        THEN output
        ELSE IF Last(output) = "."
             THEN TrailingPeriods(output)
             ELSE output

(***************************************************************************)
(* FileTypeFilter: valid_filetype                                          *)
(***************************************************************************)

unwanted_filetypes ==
    { <<"m", "p", "4">>, <<"m", "o", "v">>, <<"w", "e", "b", "m">>,
      <<"w", "m", "v">>, <<"f", "l", "v">>, <<"o", "g", "v">>, <<"a", "v", "i">> }

valid_filetype(filename) ==
    LET filetype == LowerStr(Last(Split(filename, <<".">>)))
    IN  ~(filetype \in unwanted_filetypes)

(***************************************************************************)
(* HtmlLinkExtractor: the id resolution of download_files_from_html        *)
(***************************************************************************)

FilesSegment == <<"/", "f", "i", "l", "e", "s", "/">>
VerifierMark == <<"?", "v", "e", "r", "i", "f", "i", "e", "r", "=">>
WrapMark == <<"?", "w", "r", "a", "p", "=">>
DownloadWord == <<"d", "o", "w", "n", "l", "o", "a", "d">>
PreviewWord == <<"p", "r", "e", "v", "i", "e", "w">>

NoId == [found |-> FALSE, id |-> <<>>]

\* a slip: the test for "download" and "preview" is left out
ExtractFileId_NoDownloadCheck(file_url) ==
    IF ~Contains(file_url, FilesSegment)
    THEN NoId
    ELSE LET file_id == Last(Split(file_url, <<"/">>))
         IN  IF Contains(file_id, VerifierMark)
             THEN [found |-> TRUE, id |-> Split(file_id, <<"?">>)[1]]
             ELSE NoId

\* the file id one href resolves to, or NoId when the tag is skipped.
\* file_id is a str, so "type(file_id) == int" is never true and the
\* suffix tests always run.
ExtractFileId(file_url) ==
    IF ~Contains(file_url, FilesSegment)
    THEN NoId
    ELSE LET file_url_ls == Split(file_url, <<"/">>)
             file_id == Last(file_url_ls)
         IN  IF Contains(file_id, VerifierMark)
             THEN LET stem == Split(file_id, <<"?">>)[1]
                  IN  IF stem \in {DownloadWord, PreviewWord}
                      THEN [found |-> TRUE, id |-> file_url_ls[Len(file_url_ls) - 1]]
                      ELSE [found |-> TRUE, id |-> stem]
             ELSE IF Contains(file_id, WrapMark)
                  THEN NoId
                  ELSE NoId

(***************************************************************************)
(* The local filesystem: paths are f-strings joined with "/"               *)
(***************************************************************************)

\* f"{dir}/{name}"
Join(dir, name) == dir \o <<"/">> \o name

\* the components of a path as the operating system resolves it
Components(path) == SelectSeq(Split(path, <<"/">>), LAMBDA c : c # <<>>)

(***************************************************************************)
(* The remote content (the external collaborator), unchanged across runs   *)
(***************************************************************************)

\* creds['SAVE_PATH'] / the GUI's path entry
save_path == <<"R">>

Pdf(name) == name \o <<".", "p", "d", "f">>

\* course.get_file(id): url (the identity), display_name, filename
RemoteFiles ==
    (<<"1">> :> [url |-> "u1", display_name |-> <<"n", "1">>, filename |-> Pdf(<<"n", "1">>)])
 @@ (<<"2">> :> [url |-> "u2", display_name |-> <<"n", "2">>, filename |-> Pdf(<<"n", "2">>)])
 @@ (<<"3">> :> [url |-> "u3", display_name |-> <<"n", "3", "?">>, filename |-> Pdf(<<"n", "3">>)])
 @@ (<<"4">> :> [url |-> "u4", display_name |-> <<"v">>, filename |-> <<"v", ".", "M", "P", "4">>])
 @@ (<<"5">> :> [url |-> "u5", display_name |-> <<"n", "5">>, filename |-> <<"n", "5">>])
 @@ (<<"6">> :> [url |-> "u6", display_name |-> <<"n", "6">>, filename |-> Pdf(<<"n", "6">>)])
 @@ (<<"9">> :> [url |-> "u9", display_name |-> <<"n", "2">>, filename |-> Pdf(<<"n", "9">>)])

Urls == { RemoteFiles[i].url : i \in DOMAIN RemoteFiles }

\* valid_filetype of the filenames the remote files carry, computed once
FiletypeOfKnown ==
    [n \in { RemoteFiles[i].filename : i \in DOMAIN RemoteFiles } |-> valid_filetype(n)]

\* valid_filetype(file), as download_file calls it on a File object
ValidFile(file) ==
    IF file.filename \in DOMAIN FiletypeOfKnown
    THEN FiletypeOfKnown[file.filename]
    ELSE valid_filetype(file.filename)

CoursePart == <<"/", "c", "/", "1">>

VerifierHref(id) == CoursePart \o FilesSegment \o id \o VerifierMark \o <<"k">>
DownloadHref(id) ==
    CoursePart \o FilesSegment \o id \o <<"/">> \o DownloadWord \o VerifierMark \o <<"k">>
WrapHref(id) == CoursePart \o FilesSegment \o id \o WrapMark \o <<"1">>
PlainHref(id) == CoursePart \o FilesSegment \o id
PageHref == CoursePart \o <<"/", "p", "a", "g", "e", "s", "/", "x">>

\* course.get_page(page_url).body: the href of every <a>/<embed> tag that
\* has one, in document order (<<>> is an empty or absent body)
Pages ==
    (<<"p">> :> <<VerifierHref(<<"2">>), PageHref, DownloadHref(<<"9">>),
                  PlainHref(<<"5">>)>>)
 @@ (<<"q">> :> <<>>)

\* course.get_assignment(id): name and description (hrefs, as for a page)
Assignments ==
    (<<"7">> :> [name |-> <<"H", "W", ":", "1">>,
                 description |-> <<VerifierHref(<<"3">>), PlainHref(<<"3">>),
                                   WrapHref(<<"2">>)>>])

FileItem(id) == [type |-> "File", content_id |-> id, page_url |-> <<>>]
PageItem(u) == [type |-> "Page", content_id |-> <<>>, page_url |-> u]
OtherItem == [type |-> "ExternalUrl", content_id |-> <<>>, page_url |-> <<>>]

\* canvas.get_courses(), in the order the API lists them
Courses ==
    << [id |-> 1, named |-> TRUE, name |-> <<"C", "/", "1", " ">>,
        modules |-> << [name |-> <<"M", ".">>,
                        items |-> <<FileItem(<<"1">>), OtherItem, PageItem(<<"p">>),
                                    PageItem(<<"q">>)>>] >>,
        assignments |-> << [html_url |-> CoursePart \o <<"/", "a", "/", "7">>] >>,
        folders |-> << [name |-> <<"c", "f">>, files |-> << <<"1">>, <<"4">> >>],
                       [name |-> <<"c", "f", "/", "l">>, files |-> << <<"5">> >>],
                       [name |-> <<"x">>, files |-> << <<"2">> >>] >>],
       [id |-> 2, named |-> FALSE, name |-> <<>>,
        modules |-> <<>>, assignments |-> <<>>, folders |-> <<>>],
       [id |-> 12, named |-> TRUE, name |-> <<"D">>,
        modules |-> << [name |-> <<"W">>, items |-> <<FileItem(<<"6">>)>>] >>,
        assignments |-> <<>>,
        folders |-> <<>>] >>

NCourses == Len(Courses)

CourseIds == { Courses[i].id : i \in 1..NCourses }

\* the folder whose file listing the server may refuse (Forbidden)
LockedFolder == <<"c", "f", "/", "l">>

\* the file id whose lookup the server may refuse (ResourceDoesNotExist)
DeletedFile == <<"9">>

(***************************************************************************)
(* SkipListStore: the text of skip_courses.txt                             *)
(***************************************************************************)

Digits == <<"0", "1", "2", "3", "4", "5", "6", "7", "8", "9">>

DigitVal(c) == (CHOOSE d \in 1..10 : Digits[d] = c) - 1

IsDigit(c) == \E d \in 1..10 : Digits[d] = c

\* str(n), n >= 0
RECURSIVE Str(_)
Str(n) == IF n < 10 THEN <<Digits[n + 1]>> ELSE Str(n \div 10) \o <<Digits[(n % 10) + 1]>>

\* int(s) raises ValueError unless s, stripped, is a non-empty run of digits
IntRaises(s) == Strip(s) = <<>> \/ \E i \in 1..Len(Strip(s)) : ~IsDigit(Strip(s)[i])

RECURSIVE DigitsValue(_)
DigitsValue(ds) ==
    IF ds = <<>> THEN 0
    ELSE 10 * DigitsValue(SubSeq(ds, 1, Len(ds) - 1)) + DigitVal(Last(ds))

\* int(s)
ParseInt(s) == DigitsValue(Strip(s))

\* f.readlines(), each line without its newline: a text that ends in a
\* newline has no further line after it
Readlines(text) ==
    LET pieces == Split(text, <<"\n">>)
    IN  IF Last(pieces) = <<>> THEN SubSeq(pieces, 1, Len(pieces) - 1) ELSE pieces

\* the loop of cbd.py lines 185-187 raises (ValueError) on some line
LoadRaises(text) == \E i \in 1..Len(Readlines(text)) : IntRaises(Readlines(text)[i])

\* skip_course_ids after the loop of cbd.py lines 185-187
LoadSkipIds(text) == { ParseInt(Readlines(text)[i]) : i \in 1..Len(Readlines(text)) }

\* a slip: the line is written without its newline
SkipLine_NoNewline(current_id) == Str(current_id) \o <<" ">>

\* the text skip_courses_ls.write appends for a course (cbd.py line 323)
SkipLine(current_id) == Str(current_id) \o <<" ", "\n">>

(***************************************************************************)
(* CourseMaterializer: the steps of one course's traversal, in loop order  *)
(***************************************************************************)

Step(op, arg, dir) == [op |-> op, arg |-> arg, dir |-> dir]

RECURSIVE Flatten(_)
Flatten(seqs) == IF seqs = <<>> THEN <<>> ELSE Head(seqs) \o Flatten(Tail(seqs))

course_folder_path(c) == Join(save_path, make_valid_folder_name(c.name, FALSE))

\* download_files_from_html visits every tag of the html, in order
LinkSteps(hrefs, dir) == [i \in 1..Len(hrefs) |-> Step("link", hrefs[i], dir)]

\* cbd.py lines 254-268: a File item, a Page item and its links, or nothing
ItemSteps(item, module_dir) ==
    IF item.type = "File"
    THEN <<Step("file", item.content_id, module_dir)>>
    ELSE IF item.type = "Page"
         THEN <<Step("page", item.page_url, module_dir)>>
              \o LinkSteps(Pages[item.page_url], module_dir)
         ELSE <<>>

\* cbd.py lines 242-268
ModuleSteps(c, m) ==
    LET modules_dir == Join(course_folder_path(c), <<"M", "o", "d", "u", "l", "e", "s">>)
        module_dir == Join(modules_dir, make_valid_folder_name(m.name, FALSE))
    IN  <<Step("module", m.name, module_dir)>>
        \o Flatten([i \in 1..Len(m.items) |-> ItemSteps(m.items[i], module_dir)])

\* cbd.py line 286: the assignment id is the last segment of its html_url
AssignmentId(a) == Last(Split(a.html_url, <<"/">>))

\* cbd.py lines 281-299
AssignmentSteps(c, a) ==
    LET assignments_dir ==
            Join(course_folder_path(c),
                 <<"A", "s", "s", "i", "g", "n", "m", "e", "n", "t", "s">>)
        assignment == Assignments[AssignmentId(a)]
        assignment_dir == Join(assignments_dir, make_valid_folder_name(assignment.name, FALSE))
    IN  <<Step("assignment", assignment.name, assignment_dir)>>
        \o LinkSteps(assignment.description, assignment_dir)

\* cbd.py lines 304-317: the folder's name goes into the path as it is
FolderSteps(c, folder) ==
    LET folder_path == Join(course_folder_path(c), folder.name)
    IN  <<Step("folder", folder.name, folder_path)>>
        \o [i \in 1..Len(folder.files) |-> Step("folderfile", folder.files[i], folder_path)]

Steps(c) ==
    Flatten([i \in 1..Len(c.modules) |-> ModuleSteps(c, c.modules[i])])
    \o Flatten([i \in 1..Len(c.assignments) |-> AssignmentSteps(c, c.assignments[i])])
    \o Flatten([i \in 1..Len(c.folders) |-> FolderSteps(c, c.folders[i])])

\* the steps of every course, computed once
CourseSteps == [i \in 1..NCourses |-> Steps(Courses[i])]

(***************************************************************************)
(* The local filesystem: existence tests and directory creation            *)
(***************************************************************************)

\* every directory string and every target path string the traversal of
\* Courses can build
KnownPaths ==
    LET ds == { course_folder_path(Courses[c]) : c \in 1..NCourses }
              \cup UNION { { steps[j].dir : j \in 1..Len(steps) } :
                           steps \in { CourseSteps[c] : c \in 1..NCourses } }
    IN  ds \cup { Join(d, make_valid_folder_name(RemoteFiles[i].display_name, TRUE)) :
                    d \in ds, i \in DOMAIN RemoteFiles }

\* Components, computed once for the known paths
ComponentsOfKnown == [p \in KnownPaths |-> Components(p)]

\* the normalised form of a path: its components
Norm(path) ==
    IF path \in DOMAIN ComponentsOfKnown THEN ComponentsOfKnown[path] ELSE Components(path)

\* os.path.exists of the path that resolves to p, on a disk with directories
\* ds and files fs
Exists(p, ds, fs) == p \in ds \/ p \in DOMAIN fs

\* os.makedirs of the path that resolves to p: the directory and every
\* missing ancestor
Makedirs(p, ds) == ds \cup { SubSeq(p, 1, n) : n \in 1..Len(p) }

(***************************************************************************)
(* Bounds of the model                                                     *)
(***************************************************************************)

\* process invocations in one behaviour
MaxRuns == 2

\* failed transfers in one behaviour
MaxFailures == 1

\* times the user ends the program from outside in one behaviour
MaxKills == 1

\* background workers counted in one window
MaxWorkers == 2

(***************************************************************************)
(* State                                                                   *)
(***************************************************************************)

VARIABLES
    variant,            \* "batch" (cbd.py) or "gui" (cbd_exe.py)
    denied,             \* folder names whose file listing raises Forbidden
    missing,            \* file ids whose lookup raises ResourceDoesNotExist
    run,                \* number of the current process invocation
    pc,                 \* "idle", "courses", "steps", "markdone", "done", "crashed"
    ci,                 \* index of current_course in Courses
    k,                  \* index of the next step of the current course
    skip_course_ids,    \* the set loaded from skip_courses.txt (batch)
    course_items_urls,  \* the ledger of the current course
    dirs,               \* directories on disk (normalised paths)
    files,              \* files on disk: normalised path -> url of the content
    skipExists,         \* skip_courses.txt exists
    skipText,           \* its durable content
    buffer,             \* text written to skip_courses_ls and not flushed yet
    report,             \* what the last step printed
    hist,               \* history: transfers, denials, appends, crashes
    call,               \* one function of the code applied on its own (FunctionSpec)
    gui                 \* the window of cbd_exe.py: download_button_pressed, the
                        \* workers started, and whether a press found the flag set

vars == <<variant, denied, missing, run, pc, ci, k, skip_course_ids,
          course_items_urls, dirs, files, skipExists, skipText, buffer, report, hist,
          call, gui>>

\* what no step of a run changes
world == <<variant, denied, missing, call>>

disk == <<dirs, files>>

skipStore == <<skipExists, skipText, buffer>>

\* the outcomes of file.download: success, or one of the three handlers
Outcomes == {"ok", "ResourceDoesNotExist", "MemoryError", "Other"}

\* one entry of the history: what happened, in which run, at which course
\* and step, for which url ("-" when none) and path, and whether it succeeded
Event(kind, url, path, ok) ==
    [kind |-> kind, run |-> run, course |-> ci, step |-> k, at |-> pc,
     url |-> url, path |-> path, ok |-> ok]

Failures(h) == Cardinality({ i \in DOMAIN h : h[i].kind = "transfer" /\ ~h[i].ok })

Kills(h) == Cardinality({ i \in DOMAIN h : h[i].kind = "killed" })

\* a function applied on its own: which one, its arguments, how far the
\* applications have gone, and what each returned (ok: it returned normally,
\* found an id, or found the file eligible)
Call(fn, arg, is_file) ==
    [fn |-> fn, arg |-> arg, is_file |-> is_file, stage |-> 0,
     ok |-> FALSE, out |-> <<>>, ok2 |-> FALSE, out2 |-> <<>>]

NoCall == Call("none", <<>>, FALSE)

\* GUI.__init__ (cbd_exe.py line 243): the button has not been pressed
NewWindow == [download_button_pressed |-> FALSE, workers |-> 0, ignored |-> FALSE]

\* a skip_courses.txt a user may start with: none, empty, or course 12 listed
InitialSkipTexts == { <<>>, <<"1", "2", "\n">> }

Init ==
    /\ variant \in {"batch", "gui"}
    /\ denied \in {{}, {LockedFolder}}
    /\ missing \in {{}, {DeletedFile}}
    /\ run = 1
    /\ pc = "idle"
    /\ ci = 0
    /\ k = 0
    /\ skip_course_ids = {}
    /\ course_items_urls = {}
    /\ dirs = {}
    /\ files = <<>>
    /\ \/ variant = "batch" /\ skipExists = TRUE /\ skipText \in InitialSkipTexts
       \/ skipExists = FALSE /\ skipText = <<>>
    /\ buffer = <<>>
    /\ report = "none"
    /\ hist = <<>>
    /\ call = NoCall
    /\ gui = NewWindow

(***************************************************************************)
(* FileAcquirer: download_file                                             *)
(***************************************************************************)

\* what one call of download_file leaves behind; at is the resolved file_path
Result(urls, ds, fs, at, transfer, rep) ==
    [urls |-> urls, dirs |-> ds, files |-> fs, at |-> at,
     transfer |-> transfer, report |-> rep]

\* a slip: urls.add(file_url) is left out
Transfer_NoRecord(file, at, urls, ds, fs, outcome) ==
    IF outcome = "ok"
    THEN Result(urls, ds, (at :> file.url) @@ fs, at, TRUE, "none")
    ELSE Result(urls, ds, fs, at, TRUE, outcome)

\* a slip: urls.add(file_url) comes before file.download(file_path)
Transfer_RecordsFailure(file, at, urls, ds, fs, outcome) ==
    IF outcome = "ok"
    THEN Result(urls \cup {file.url}, ds, (at :> file.url) @@ fs, at, TRUE, "none")
    ELSE Result(urls \cup {file.url}, ds, fs, at, TRUE, outcome)

\* cbd.py lines 84-100: the transfer to the resolved file_path and its three
\* handlers
Transfer(file, at, urls, ds, fs, outcome) ==
    IF outcome = "ok"
    THEN Result(urls \cup {file.url}, ds, (at :> file.url) @@ fs, at, TRUE, "none")
    ELSE Result(urls, ds, fs, at, TRUE, outcome)

\* a slip: the test "file_url in urls" is left out
download_file_batch_NoLedgerCheck(file, dir, urls, ds, fs, outcome) ==
    LET file_path == Join(dir, make_valid_folder_name(file.display_name, TRUE))
        body(d, at) ==
            LET ds1 == IF ~Exists(d, ds, fs) THEN Makedirs(d, ds) ELSE ds
            IN  IF ~ValidFile(file)
                THEN Result(urls, ds, fs, at, FALSE, "none")
                ELSE IF ~Exists(at, ds1, fs)
                THEN Transfer(file, at, urls, ds1, fs, outcome)
                ELSE Result(urls, ds1, fs, at, FALSE, "none")
    IN  body(Norm(dir), Norm(file_path))

\* a slip: a file found at the target path is entered in the ledger
download_file_batch_RecordsPathHit(file, dir, urls, ds, fs, outcome) ==
    LET file_path == Join(dir, make_valid_folder_name(file.display_name, TRUE))
        body(d, at) ==
            LET ds1 == IF ~Exists(d, ds, fs) THEN Makedirs(d, ds) ELSE ds
            IN  IF file.url \in urls
                THEN Result(urls, ds, fs, at, FALSE, "none")
                ELSE IF ~ValidFile(file)
                THEN Result(urls, ds, fs, at, FALSE, "none")
                ELSE IF ~Exists(at, ds1, fs)
                THEN Transfer(file, at, urls, ds1, fs, outcome)
                ELSE Result(urls \cup {file.url}, ds1, fs, at, FALSE, "none")
    IN  body(Norm(dir), Norm(file_path))

\* a slip: the directory is made before the file type is tested
download_file_batch_MakedirsFirst(file, dir, urls, ds, fs, outcome) ==
    LET file_path == Join(dir, make_valid_folder_name(file.display_name, TRUE))
        body(d, at) ==
            LET ds1 == IF ~Exists(d, ds, fs) THEN Makedirs(d, ds) ELSE ds
            IN  IF file.url \in urls
                THEN Result(urls, ds, fs, at, FALSE, "none")
                ELSE IF ~ValidFile(file)
                THEN Result(urls, ds1, fs, at, FALSE, "none")
                ELSE IF ~Exists(at, ds1, fs)
                THEN Transfer(file, at, urls, ds1, fs, outcome)
                ELSE Result(urls, ds1, fs, at, FALSE, "none")
    IN  body(Norm(dir), Norm(file_path))

\* cbd.py download_file; d and at are dir and file_path as resolved
download_file_batch(file, dir, urls, ds, fs, outcome) ==
    LET file_path == Join(dir, make_valid_folder_name(file.display_name, TRUE))
        body(d, at) ==
            LET ds1 == IF ~Exists(d, ds, fs) THEN Makedirs(d, ds) ELSE ds
            IN  IF file.url \in urls
                THEN Result(urls, ds, fs, at, FALSE, "none")
                ELSE IF ~ValidFile(file)
                THEN Result(urls, ds, fs, at, FALSE, "none")
                ELSE IF ~Exists(at, ds1, fs)
                THEN Transfer(file, at, urls, ds1, fs, outcome)
                ELSE Result(urls, ds1, fs, at, FALSE, "none")
    IN  body(Norm(dir), Norm(file_path))

\* a slip: the directory is created before the tests of path and file type
download_file_gui_MakedirsFirst(file, dir, urls, ds, fs, outcome) ==
    LET file_path == Join(dir, make_valid_folder_name(file.display_name, TRUE))
        body(d, at) ==
            LET ds1 == IF ~Exists(d, ds, fs) THEN Makedirs(d, ds) ELSE ds
            IN  IF file.url \in urls
                THEN Result(urls, ds, fs, at, FALSE, "none")
                ELSE IF Exists(at, ds1, fs)
                THEN Result(urls, ds1, fs, at, FALSE, "none")
                ELSE IF ~ValidFile(file)
                THEN Result(urls, ds1, fs, at, FALSE, "none")
                ELSE Transfer(file, at, urls, ds1, fs, outcome)
    IN  body(Norm(dir), Norm(file_path))

\* cbd_exe.py download_file; d and at are dir and file_path as resolved
download_file_gui(file, dir, urls, ds, fs, outcome) ==
    LET file_path == Join(dir, make_valid_folder_name(file.display_name, TRUE))
        body(d, at) ==
            LET ds1 == IF ~Exists(d, ds, fs) THEN Makedirs(d, ds) ELSE ds
            IN  IF file.url \in urls
                THEN Result(urls, ds, fs, at, FALSE, "none")
                ELSE IF Exists(at, ds, fs)
                THEN Result(urls, ds, fs, at, FALSE, "none")
                ELSE IF ~ValidFile(file)
                THEN Result(urls, ds, fs, at, FALSE, "none")
                ELSE IF ~Exists(at, ds1, fs)
                THEN Transfer(file, at, urls, ds1, fs, outcome)
                ELSE Result(urls, ds1, fs, at, FALSE, "none")
    IN  body(Norm(dir), Norm(file_path))

download_file(file, dir, urls, ds, fs, outcome) ==
    IF variant = "batch"
    THEN download_file_batch(file, dir, urls, ds, fs, outcome)
    ELSE download_file_gui(file, dir, urls, ds, fs, outcome)

(***************************************************************************)
(* RunDriver and CourseMaterializer: the actions                           *)
(***************************************************************************)

current_course == Courses[ci]

CurrentStep == CourseSteps[ci][k]

\* the traversal of the current course is over: the batch program goes on
\* to record it, the GUI program to the next course
EndOfCourse ==
    IF variant = "batch"
    THEN pc' = "markdone" /\ ci' = ci /\ k' = 0
    ELSE pc' = "courses" /\ ci' = ci + 1 /\ k' = 0

Goto(n) ==
    IF n <= Len(CourseSteps[ci])
    THEN pc' = "steps" /\ ci' = ci /\ k' = n
    ELSE EndOfCourse

\* an exception no handler catches ends the program (the GUI's worker);
\* the interpreter closes skip_courses_ls on its way out
Raise(kind) ==
    /\ pc' = "crashed"
    /\ hist' = Append(hist, Event(kind, "-", <<>>, FALSE))
    /\ skipText' = skipText \o buffer
    /\ buffer' = <<>>
    /\ report' = "traceback"
    /\ UNCHANGED <<world, gui, run, ci, k, skip_course_ids, course_items_urls, disk,
                   skipExists>>

\* a step that only moves on to position n
Pass(n) ==
    /\ Goto(n)
    /\ report' = "none"
    /\ UNCHANGED <<world, gui, run, skip_course_ids, course_items_urls, disk, skipStore, hist>>

\* download_file(file, dir, course_items_urls), then the next step
Acquire(file, dir) ==
    \E outcome \in Outcomes :
        \E r \in { download_file(file, dir, course_items_urls, dirs, files, outcome) } :
            /\ outcome # "ok" => (r.transfer /\ Failures(hist) < MaxFailures)
            /\ course_items_urls' = r.urls
            /\ dirs' = r.dirs
            /\ files' = r.files
            /\ report' = r.report
            /\ hist' = IF r.transfer
                       THEN Append(hist, Event("transfer", file.url, r.at, outcome = "ok"))
                       ELSE hist
            /\ Goto(k + 1)
            /\ UNCHANGED <<world, gui, run, skip_course_ids, skipStore>>

\* course.get_file(file_id) raises ResourceDoesNotExist
LookupRaises(file_id) == file_id \in missing \/ file_id \notin DOMAIN RemoteFiles

\* course.get_file(file_id); download_file(file, dir, urls)
LookupAndAcquire(file_id, dir) ==
    IF LookupRaises(file_id)
    THEN Raise("lookup_failed")
    ELSE Acquire(RemoteFiles[file_id], dir)

\* cbd.py lines 181-192: read skip_courses.txt, reopen it for appending
LoadSkipList ==
    /\ pc = "idle"
    /\ variant = "batch"
    /\ IF ~skipExists \/ LoadRaises(skipText)
       THEN /\ pc' = "crashed"
            /\ hist' = Append(hist, Event("load_raised", "-", <<>>, FALSE))
            /\ report' = "traceback"
            /\ UNCHANGED <<ci, skip_course_ids>>
       ELSE /\ pc' = "courses"
            /\ ci' = 1
            /\ skip_course_ids' = LoadSkipIds(skipText)
            /\ UNCHANGED <<hist, report>>
    /\ UNCHANGED <<world, gui, run, k, course_items_urls, disk, skipStore>>

\* the window exists: the process runs, whatever became of its worker
WindowOpen ==
    \/ pc \in {"idle", "courses", "steps", "done"}
    \/ pc = "crashed" /\ Last(hist).kind # "killed"

\* threading.Thread(target = self.download_materials).start() and the head
\* of download_materials
StartWorker ==
    /\ gui.workers < MaxWorkers
    /\ gui' = [gui EXCEPT !.download_button_pressed = TRUE, !.workers = @ + 1]
    /\ pc' = "courses"
    /\ ci' = 1
    /\ k' = 0
    /\ UNCHANGED <<world, run, skip_course_ids, course_items_urls, disk, skipStore,
                   report, hist>>

\* a slip: download_button_pressed is not tested
DownloadStart_NoFlag ==
    /\ variant = "gui"
    /\ WindowOpen
    /\ StartWorker

\* cbd_exe.py download_start (lines 263-266), the command of the button:
\* Tk runs it in the main loop, one press at a time
DownloadStart ==
    /\ variant = "gui"
    /\ WindowOpen
    /\ IF ~gui.download_button_pressed
       THEN StartWorker
       ELSE /\ gui' = [gui EXCEPT !.ignored = TRUE]
            /\ UNCHANGED <<world, run, pc, ci, k, skip_course_ids, course_items_urls,
                           disk, skipStore, report, hist>>

\* the press of a button that has not been pressed in this window
FirstPress ==
    /\ ~gui.download_button_pressed
    /\ DownloadStart

AtCourse == pc = "courses" /\ ci <= NCourses

Skipped == variant = "batch" /\ current_course.id \in skip_course_ids

\* cbd.py lines 214-216
SkipCourse ==
    /\ AtCourse
    /\ Skipped
    /\ ci' = ci + 1
    /\ UNCHANGED <<world, gui, run, pc, k, skip_course_ids, course_items_urls, disk, skipStore,
                   report, hist>>

\* a slip: the AttributeError of current_course.name is not caught
UnavailableCourse_Raises ==
    /\ AtCourse
    /\ ~Skipped
    /\ ~current_course.named
    /\ Raise("name_raised")

\* cbd.py lines 220-223: the name of the course cannot be read
UnavailableCourse ==
    /\ AtCourse
    /\ ~Skipped
    /\ ~current_course.named
    /\ ci' = ci + 1
    /\ UNCHANGED <<world, gui, run, pc, k, skip_course_ids, course_items_urls, disk, skipStore,
                   report, hist>>

\* a slip: the ledger of the previous course is kept
BeginCourse_KeepsLedger ==
    /\ AtCourse
    /\ ~Skipped
    /\ current_course.named
    /\ IF make_valid_folder_name_raises(current_course.name, FALSE)
       THEN /\ Raise("name_raised")
       ELSE /\ course_items_urls' = course_items_urls
            /\ \E d \in { Norm(course_folder_path(current_course)) } :
                  dirs' = IF ~Exists(d, dirs, files) THEN Makedirs(d, dirs) ELSE dirs
            /\ report' = "course"
            /\ Goto(1)
            /\ UNCHANGED <<world, gui, run, skip_course_ids, files, skipStore, hist>>

\* cbd.py lines 220-233: a fresh ledger and the course's folder
BeginCourse ==
    /\ AtCourse
    /\ ~Skipped
    /\ current_course.named
    /\ IF make_valid_folder_name_raises(current_course.name, FALSE)
       THEN /\ Raise("name_raised")
       ELSE /\ course_items_urls' = {}
            /\ \E d \in { Norm(course_folder_path(current_course)) } :
                  dirs' = IF ~Exists(d, dirs, files) THEN Makedirs(d, dirs) ELSE dirs
            /\ report' = "course"
            /\ Goto(1)
            /\ UNCHANGED <<world, gui, run, skip_course_ids, files, skipStore, hist>>

AtStep(op) == pc = "steps" /\ CurrentStep.op = op

\* cbd.py lines 242-248
EnterModule ==
    /\ AtStep("module")
    /\ IF make_valid_folder_name_raises(CurrentStep.arg, FALSE)
       THEN Raise("name_raised")
       ELSE Pass(k + 1)

\* cbd.py lines 255-260
ModuleItemFile ==
    /\ AtStep("file")
    /\ LookupAndAcquire(CurrentStep.arg, CurrentStep.dir)

\* cbd.py lines 262-268
ModuleItemPage ==
    /\ AtStep("page")
    /\ Pass(k + 1)

\* cbd.py lines 120-155: one tag of download_files_from_html
HtmlLink ==
    /\ AtStep("link")
    /\ IF ExtractFileId(CurrentStep.arg).found
       THEN LookupAndAcquire(ExtractFileId(CurrentStep.arg).id, CurrentStep.dir)
       ELSE Pass(k + 1)

\* cbd.py lines 281-299
EnterAssignment ==
    /\ AtStep("assignment")
    /\ IF make_valid_folder_name_raises(CurrentStep.arg, FALSE)
       THEN Raise("name_raised")
       ELSE Pass(k + 1)

\* the first folder step after step n of the current course, or the end
NextFolderStep(n) ==
    IF \E j \in (n + 1)..Len(CourseSteps[ci]) : CourseSteps[ci][j].op = "folder"
    THEN CHOOSE j \in (n + 1)..Len(CourseSteps[ci]) :
            /\ CourseSteps[ci][j].op = "folder"
            /\ \A m \in (n + 1)..(j - 1) : CourseSteps[ci][m].op # "folder"
    ELSE Len(CourseSteps[ci]) + 1

\* a slip: the handler says continue, not break
ForbiddenHandler_Continue ==
    /\ Goto(NextFolderStep(k))
    /\ hist' = Append(hist, Event("denied", "-", Norm(CurrentStep.dir), FALSE))
    /\ report' = "none"
    /\ UNCHANGED <<world, gui, run, skip_course_ids, course_items_urls, disk, skipStore>>

\* what the handler of Forbidden does: break out of the loop over folders
ForbiddenHandler ==
    /\ EndOfCourse
    /\ hist' = Append(hist, Event("denied", "-", Norm(CurrentStep.dir), FALSE))
    /\ report' = "none"
    /\ UNCHANGED <<world, gui, run, skip_course_ids, course_items_urls, disk, skipStore>>

\* cbd.py lines 304-319: the listing of a folder begins
OpenFolder ==
    /\ AtStep("folder")
    /\ IF CurrentStep.arg \in denied
       THEN ForbiddenHandler
       ELSE Pass(k + 1)

\* cbd.py lines 316-317
FolderFile ==
    /\ AtStep("folderfile")
    /\ Acquire(RemoteFiles[CurrentStep.arg], CurrentStep.dir)

\* a slip: the file is reopened for writing, not for appending
markDone_Rewrites(text, buf, current_id) ==
    [text |-> SkipLine(current_id), buffer |-> <<>>]

\* skip_courses_ls.write, flush and os.fsync: (durable text, buffer) after
markDone(text, buf, current_id) ==
    [text |-> text \o buf \o SkipLine(current_id), buffer |-> <<>>]

\* cbd.py lines 321-327
MarkDone ==
    /\ pc = "markdone"
    /\ skipText' = markDone(skipText, buffer, current_course.id).text
    /\ buffer' = markDone(skipText, buffer, current_course.id).buffer
    /\ hist' = Append(hist, Event("append", "-", <<>>, TRUE))
    /\ pc' = "courses"
    /\ ci' = ci + 1
    /\ report' = "none"
    /\ UNCHANGED <<world, gui, run, k, skip_course_ids, course_items_urls, disk, skipExists>>

\* cbd.py line 330 / cbd_exe.py line 410: every course has been visited
Finish ==
    /\ pc = "courses"
    /\ ci > NCourses
    /\ pc' = "done"
    /\ skipText' = skipText \o buffer
    /\ buffer' = <<>>
    /\ report' = IF variant = "gui" THEN "finished" ELSE "none"
    /\ UNCHANGED <<world, gui, run, ci, k, skip_course_ids, course_items_urls, disk, skipExists,
                   hist>>

\* the process is killed (power loss, the window is closed): unflushed text is lost
Kill ==
    /\ pc \in {"courses", "steps", "markdone"}
    /\ Kills(hist) < MaxKills
    /\ pc' = "crashed"
    /\ buffer' = <<>>
    /\ hist' = Append(hist, Event("killed", "-", <<>>, FALSE))
    /\ report' = "none"
    /\ UNCHANGED <<world, gui, run, ci, k, skip_course_ids, course_items_urls, disk, skipExists,
                   skipText>>

\* the user starts the program again: only the disk and skip_courses.txt remain
Rerun ==
    /\ pc \in {"done", "crashed"}
    /\ run < MaxRuns
    /\ run' = run + 1
    /\ pc' = "idle"
    /\ ci' = 0
    /\ k' = 0
    /\ skip_course_ids' = {}
    /\ course_items_urls' = {}
    /\ buffer' = <<>>
    /\ report' = "none"
    /\ gui' = NewWindow
    /\ UNCHANGED <<world, disk, skipExists, skipText, hist>>

Next ==
    \/ LoadSkipList
    \/ FirstPress
    \/ SkipCourse
    \/ UnavailableCourse
    \/ BeginCourse
    \/ EnterModule
    \/ ModuleItemFile
    \/ ModuleItemPage
    \/ HtmlLink
    \/ EnterAssignment
    \/ OpenFolder
    \/ FolderFile
    \/ MarkDone
    \/ Finish
    \/ Kill
    \/ Rerun

Spec == Init /\ [][Next]_vars

(***************************************************************************)
(* The GUI program with a user who presses the download button at any      *)
(* time, any number of times                                               *)
(***************************************************************************)

GuiInit == Init /\ variant = "gui"

GuiNext ==
    \/ DownloadStart
    \/ UnavailableCourse
    \/ BeginCourse
    \/ EnterModule
    \/ ModuleItemFile
    \/ ModuleItemPage
    \/ HtmlLink
    \/ EnterAssignment
    \/ OpenFolder
    \/ FolderFile
    \/ Finish
    \/ Kill
    \/ Rerun

GuiSpec == GuiInit /\ [][GuiNext]_vars

(***************************************************************************)
(* The functions of the code applied on their own, to arguments drawn from *)
(* bounded sets                                                            *)
(***************************************************************************)

\* the length of the enumerated part of a name
MaxTail == 4

\* every string over alphabet of at most n characters
Strings(alphabet, n) == UNION { [1..m -> alphabet] : m \in 0..n }

\* n times the character c
Fill(c, n) == [i \in 1..n |-> c]

\* what a display name starts with: nothing, padding that brings the name to
\* the truncation length of make_valid_folder_name, or a name that already
\* holds a run of two periods
NameHeads == { <<>>, Fill("a", MaxNameLen - 1), <<"a", ".", ".", "b">> }

\* display names: an enumerated tail after one of the heads
DisplayNames ==
    { head \o tail : head \in NameHeads,
                      tail \in Strings({"a", ".", " ", "/"}, MaxTail) }

SanitizeCalls ==
    { Call("make_valid_folder_name", x, f) : x \in DisplayNames, f \in BOOLEAN }

\* hrefs of <a> and <embed> tags: a path below the course, a final segment
\* and at most one query
HrefMiddles ==
    { FilesSegment, <<"/", "p", "a", "g", "e", "s", "/">>, FilesSegment \o <<"7", "/">> }

HrefLasts == { <<"3">>, <<"4", "2">>, DownloadWord, PreviewWord, <<>> }

HrefQueries ==
    { <<>>, VerifierMark \o <<"k">>, WrapMark \o <<"1">>, <<"?", "x", "=", "1">> }

Hrefs ==
    { CoursePart \o mid \o last \o query :
        mid \in HrefMiddles, last \in HrefLasts, query \in HrefQueries }

ExtractCalls == { Call("download_files_from_html", h, FALSE) : h \in Hrefs }

\* file.filename: a stem, then an extension with or without its period
FileExtensions ==
    unwanted_filetypes
    \cup { <<"M", "P", "4">>, <<"A", "v", "i">>, <<"W", "e", "b", "M">>,
           <<"p", "d", "f">>, <<"m", "p", "3">>, <<"m", "p", "4", "x">>, <<>> }

Filenames ==
    { stem \o sep \o ext : stem \in { <<>>, <<"n">>, <<"a", ".", "b">> },
                             sep \in { <<>>, <<".">> },
                             ext \in FileExtensions }

FiletypeCalls == { Call("valid_filetype", n, TRUE) : n \in Filenames }

\* the program is not running while a function is applied on its own
FunctionInit ==
    /\ variant = "batch"
    /\ denied = {}
    /\ missing = {}
    /\ run = 1
    /\ pc = "idle"
    /\ ci = 0
    /\ k = 0
    /\ skip_course_ids = {}
    /\ course_items_urls = {}
    /\ dirs = {}
    /\ files = <<>>
    /\ skipExists = FALSE
    /\ skipText = <<>>
    /\ buffer = <<>>
    /\ report = "none"
    /\ hist = <<>>
    /\ call \in SanitizeCalls \cup ExtractCalls \cup FiletypeCalls
    /\ gui = NewWindow

program == <<variant, denied, missing, run, pc, ci, k, skip_course_ids,
             course_items_urls, dirs, files, skipExists, skipText, buffer, report, hist,
             gui>>

\* make_valid_folder_name(arg, is_file)
ApplySanitize ==
    /\ call.fn = "make_valid_folder_name"
    /\ call.stage = 0
    /\ call' = IF make_valid_folder_name_raises(call.arg, call.is_file)
               THEN [call EXCEPT !.stage = 1, !.ok = FALSE]
               ELSE [call EXCEPT !.stage = 1, !.ok = TRUE,
                                 !.out = make_valid_folder_name(call.arg, call.is_file)]
    /\ UNCHANGED program

\* make_valid_folder_name applied to its own result
ReapplySanitize ==
    /\ call.fn = "make_valid_folder_name"
    /\ call.stage = 1
    /\ call.ok
    /\ call' = IF make_valid_folder_name_raises(call.out, call.is_file)
               THEN [call EXCEPT !.stage = 2, !.ok2 = FALSE]
               ELSE [call EXCEPT !.stage = 2, !.ok2 = TRUE,
                                 !.out2 = make_valid_folder_name(call.out, call.is_file)]
    /\ UNCHANGED program

\* the id resolution of download_files_from_html for one tag
ApplyExtractFileId ==
    /\ call.fn = "download_files_from_html"
    /\ call.stage = 0
    /\ call' = [call EXCEPT !.stage = 1,
                            !.ok = ExtractFileId(call.arg).found,
                            !.out = ExtractFileId(call.arg).id]
    /\ UNCHANGED program

\* valid_filetype(file)
ApplyValidFiletype ==
    /\ call.fn = "valid_filetype"
    /\ call.stage = 0
    /\ call' = [call EXCEPT !.stage = 1, !.ok = valid_filetype(call.arg)]
    /\ UNCHANGED program

FunctionNext ==
    \/ ApplySanitize
    \/ ReapplySanitize
    \/ ApplyExtractFileId
    \/ ApplyValidFiletype

FunctionSpec == FunctionInit /\ [][FunctionNext]_vars

(***************************************************************************)
(* Reading the history                                                     *)
(***************************************************************************)

Transfers == { i \in DOMAIN hist : hist[i].kind = "transfer" }

Crashes == { i \in DOMAIN hist :
                hist[i].kind \in {"killed", "lookup_failed", "name_raised", "load_raised"} }

\* run r visited every course and ended normally
RunComplete(r) ==
    /\ \A i \in Crashes : hist[i].run # r
    /\ r < run \/ (r = run /\ pc = "done")

\* events i and j belong to the same traversal of the same course
SameTraversal(i, j) == hist[i].run = hist[j].run /\ hist[i].course = hist[j].course

\* the file that each step of each course hands to download_file, if any,
\* computed once
StepFileIds ==
    [c \in 1..NCourses |->
        [j \in 1..Len(CourseSteps[c]) |->
            IF CourseSteps[c][j].op \in {"file", "folderfile"}
            THEN [found |-> TRUE, id |-> CourseSteps[c][j].arg]
            ELSE IF CourseSteps[c][j].op = "link"
                 THEN ExtractFileId(CourseSteps[c][j].arg)
                 ELSE NoId]]

StepFileId(c, j) == StepFileIds[c][j]

StepAcquires(c, j) ==
    /\ StepFileId(c, j).found
    /\ CourseSteps[c][j].op = "folderfile" \/ ~LookupRaises(StepFileId(c, j).id)

StepFile(c, j) == RemoteFiles[StepFileId(c, j).id]

\* the resolved target path of each step that names a remote file (<<>> for
\* the other steps), computed once
StepPaths ==
    [c \in 1..NCourses |->
        [j \in 1..Len(CourseSteps[c]) |->
            IF StepFileIds[c][j].found /\ StepFileIds[c][j].id \in DOMAIN RemoteFiles
            THEN Norm(Join(CourseSteps[c][j].dir,
                           make_valid_folder_name(
                               RemoteFiles[StepFileIds[c][j].id].display_name, TRUE)))
            ELSE <<>>]]

StepPath(c, j) == StepPaths[c][j]

(***************************************************************************)
(* C1: of two consecutive complete runs, the second invokes the transfer   *)
(* step for no file that the first transferred successfully, however many  *)
(* paths lead to the file.  The GUI program breaks this: see C1_Retransfer *)
(***************************************************************************)
C1_NoRetransferOnRerun ==
    \A i, j \in Transfers :
        ( /\ hist[i].ok
          /\ hist[j].run = hist[i].run + 1
          /\ hist[j].url = hist[i].url
          /\ RunComplete(hist[i].run)
          /\ RunComplete(hist[j].run) ) => FALSE

Appends == { i \in DOMAIN hist : hist[i].kind = "append" }

\* something went wrong in the traversal that event i belongs to, before i
TraversalFailedBefore(i) ==
    \E j \in 1..(i - 1) :
        /\ SameTraversal(i, j)
        /\ \/ hist[j].kind = "transfer" /\ ~hist[j].ok
           \/ hist[j].kind = "denied"

C3_AppendedOnce ==
    \A i, j \in Appends : Courses[hist[i].course].id = Courses[hist[j].course].id => i = j

C3_AppendIsDurable ==
    pc \in {"courses", "steps", "done"} =>
        /\ buffer = <<>>
        /\ \A i \in Appends : Courses[hist[i].course].id \in LoadSkipIds(skipText)

C3_OnlySuccessfulRecorded == \A i \in Appends : ~TraversalFailedBefore(i)

C3_RecordedOnceAfterSuccess ==
    C3_AppendedOnce /\ C3_AppendIsDurable /\ C3_OnlySuccessfulRecorded

(***************************************************************************)
(* C4: a file whose transfer failed in one run is absent at its target     *)
(* path after that run and is passed to the transfer step again when the   *)
(* whole program is run again.                                             *)
(***************************************************************************)
C4_FailedIsRetriedOnRerun ==
    \A i \in Transfers :
        ~hist[i].ok =>
            /\ (hist[i].run = run /\ pc \in {"done", "crashed"}) =>
                    ~(hist[i].path \in DOMAIN files /\ files[hist[i].path] = hist[i].url)
            /\ (RunComplete(hist[i].run) /\ RunComplete(hist[i].run + 1)) =>
                    \E j \in Transfers :
                        hist[j].run = hist[i].run + 1 /\ hist[j].url = hist[i].url

(***************************************************************************)
(* C5: after a crash of the batch program inside a course's traversal the  *)
(* course id is not in the skip list, the next run traverses the course    *)
(* again, and that traversal invokes the transfer step for no file that    *)
(* was transferred successfully before the crash.                          *)
(***************************************************************************)
MidCourseCrashes == { i \in Crashes : hist[i].at \in {"steps", "markdone"} }

C5_CrashReprocessIsIdempotent ==
    variant = "batch" =>
        \A c \in MidCourseCrashes :
            /\ (hist[c].run = run /\ pc = "crashed") =>
                    Courses[hist[c].course].id \notin LoadSkipIds(skipText)
            /\ (hist[c].run + 1 = run /\ AtCourse /\ ci = hist[c].course) => ~Skipped
            /\ \A i, j \in Transfers :
                    ( /\ hist[i].ok
                      /\ SameTraversal(i, c)
                      /\ hist[j].run = hist[c].run + 1
                      /\ hist[j].course = hist[c].course ) => hist[j].url # hist[i].url

(***************************************************************************)
(* C6: when the lookup of a file id reports that the file no longer        *)
(* exists, the failure does not unwind past the course: the program goes   *)
(* on with the rest of the course and with the remaining courses.          *)
(***************************************************************************)
C6_LookupFailureIsContained ==
    (hist # <<>> /\ Last(hist).kind = "lookup_failed" /\ Last(hist).run = run)
        => pc # "crashed"

(***************************************************************************)
(* Steps, seen as a pair of states                                         *)
(***************************************************************************)

\* this step appended an event of the given kind to the history
Logged(kind) ==
    /\ Len(hist') = Len(hist) + 1
    /\ Last(hist').kind = kind

\* the process was killed from outside in this step
KillStep == pc' = "crashed" /\ Logged("killed")

FailureReports == Outcomes \ {"ok"}

\* the traversal has moved on to what follows step k of the current course
MovedOn ==
    \/ pc' = "steps" /\ ci' = ci /\ k' = k + 1
    \/ /\ k = Len(CourseSteps[ci])
       /\ \/ variant = "batch" /\ pc' = "markdone" /\ ci' = ci
          \/ variant = "gui" /\ pc' = "courses" /\ ci' = ci + 1

(***************************************************************************)
(* C7: when the transfer fails, in any of the three classes, download_file *)
(* reports the failure and returns without raising, the url is not         *)
(* recorded in the ledger, and the traversal goes on with the next step.   *)
(***************************************************************************)
C7_FailedTransferStep ==
    (Logged("transfer") /\ ~Last(hist').ok) =>
        /\ report' \in FailureReports
        /\ pc' # "crashed"
        /\ course_items_urls' = course_items_urls
        /\ Last(hist').url \notin course_items_urls'
        /\ files' = files
        /\ MovedOn

C7_TransferFailureIsContained == [][C7_FailedTransferStep]_vars

\* a transfer has just failed and the traversal is at the next step
C7_Witness ==
    /\ report \in FailureReports
    /\ pc = "steps"
    /\ hist # <<>>
    /\ Last(hist).kind = "transfer"
    /\ ~Last(hist).ok
    /\ k = Last(hist).step + 1

(***************************************************************************)
(* C8: a course id appended to the skip list by one run is in the set      *)
(* loaded at the start of every later run, and for a course whose id is in *)
(* the loaded set nothing is done: no directory, no lookup, no transfer,   *)
(* no new entry.                                                           *)
(***************************************************************************)
C8_AppendedIsLoaded ==
    variant = "batch" =>
        \A i \in Appends :
            /\ ~LoadRaises(skipText)
            /\ Courses[hist[i].course].id \in LoadSkipIds(skipText)
            /\ (hist[i].run < run /\ pc # "idle") =>
                    Courses[hist[i].course].id \in skip_course_ids

C8_SkippedCourseStep ==
    (AtCourse /\ Skipped /\ ~KillStep) =>
        /\ pc' = "courses"
        /\ ci' = ci + 1
        /\ UNCHANGED <<dirs, files, skipExists, skipText, buffer, hist, course_items_urls>>

C8_SkipListIsHonoured == [](C8_AppendedIsLoaded) /\ [][C8_SkippedCourseStep]_vars

\* the second run has just passed over the course the first run recorded
C8_Witness ==
    /\ variant = "batch"
    /\ run = 2
    /\ pc = "courses"
    /\ ci = 2
    /\ Courses[1].id \in skip_course_ids
    /\ \E i \in Appends : hist[i].run = 1 /\ hist[i].course = 1

(***************************************************************************)
(* C9: download_file invokes no transfer and returns normally when the url *)
(* is in the ledger, and also when something exists at the target path     *)
(* whatever the ledger holds; the ledger and the disk are left unchanged.  *)
(***************************************************************************)
C9_NoOpStep ==
    ( /\ pc = "steps"
      /\ StepAcquires(ci, k)
      /\ \/ StepFile(ci, k).url \in course_items_urls
         \/ Exists(StepPath(ci, k), dirs, files)
      /\ ~KillStep ) =>
        /\ UNCHANGED <<course_items_urls, dirs, files, hist>>
        /\ pc' # "crashed"
        /\ report' \notin FailureReports

C9_LedgerOrPathHitIsNoOp == [][C9_NoOpStep]_vars

\* an earlier step of this traversal met a url of the ledger, and another
\* one met an occupied target path with a url the ledger does not hold
C9_Witness ==
    /\ pc = "steps"
    /\ \E j \in 1..(k - 1) :
          /\ StepAcquires(ci, j)
          /\ \E i \in Transfers :
                /\ hist[i].ok /\ hist[i].run = run /\ hist[i].course = ci
                /\ hist[i].step < j
                /\ hist[i].url = StepFile(ci, j).url
    /\ \E j \in 1..(k - 1) :
          /\ StepAcquires(ci, j)
          /\ StepFile(ci, j).url \notin course_items_urls
          /\ ValidFile(StepFile(ci, j))
          /\ Exists(StepPath(ci, j), dirs, files)

(***************************************************************************)
(* C10: when the listing of a folder's files is denied, no further folder  *)
(* of the course is processed, the files on disk stay, and the run goes on *)
(* with the next course.                                                   *)
(***************************************************************************)
C10_AfterDenial ==
    \A i \in DOMAIN hist :
        hist[i].kind = "denied" =>
            /\ \A j \in (i + 1)..Len(hist) :
                    SameTraversal(i, j) => hist[j].kind \in {"append", "killed"}
            /\ (hist[i].run = run /\ hist[i].course = ci) => pc \in {"markdone", "crashed"}

C10_DenialStep ==
    Logged("denied") =>
        /\ UNCHANGED <<dirs, files>>
        /\ IF variant = "batch"
           THEN pc' = "markdone" /\ ci' = ci
           ELSE pc' = "courses" /\ ci' = ci + 1

C10_DenialEndsFoldersOnly == [](C10_AfterDenial) /\ [][C10_DenialStep]_vars

\* a folder of the first course was denied and the run is inside the last course
C10_Witness ==
    /\ pc = "steps"
    /\ ci = NCourses
    /\ \E i \in DOMAIN hist :
          /\ hist[i].kind = "denied" /\ hist[i].run = run /\ hist[i].course = 1
          /\ \E p \in DOMAIN files : p[2] = make_valid_folder_name(Courses[1].name, FALSE)

(***************************************************************************)
(* C11: for a course whose display name cannot be read, the traversal is   *)
(* abandoned before anything is done: no directory is created, nothing is  *)
(* fetched or transferred, no error is reported, and the run proceeds to   *)
(* the next course.                                                        *)
(***************************************************************************)
C11_UnavailableStep ==
    ( /\ pc = "courses"
      /\ ci <= NCourses
      /\ ~Skipped
      /\ ~current_course.named
      /\ ~KillStep ) =>
        /\ UNCHANGED <<dirs, files, course_items_urls, skipExists, skipText, buffer, hist>>
        /\ report' = report
        /\ pc' = "courses"
        /\ ci' = ci + 1

C11_UnavailableCourseIsPassed == [][C11_UnavailableStep]_vars

\* the run has passed a course whose name cannot be read, and stands at the
\* course after it
C11_Witness ==
    /\ pc = "courses"
    /\ ci > 1
    /\ ci <= NCourses
    /\ ~Courses[ci - 1].named
    /\ ~(variant = "batch" /\ Courses[ci - 1].id \in skip_course_ids)

(***************************************************************************)
(* C12: an href that contains /files/ and whose final segment is a plain   *)
(* identifier with no query suffix yields that final segment as the file   *)
(* id.                                                                     *)
(***************************************************************************)
FinalSegment(href) == Last(Split(href, <<"/">>))

PlainIdentifier(seg) == seg # <<>> /\ \A i \in 1..Len(seg) : IsDigit(seg[i])

Extracted == call.fn = "download_files_from_html" /\ call.stage = 1

C12_PlainIdIsYielded ==
    ( /\ Extracted
      /\ Contains(call.arg, FilesSegment)
      /\ PlainIdentifier(FinalSegment(call.arg)) ) =>
        /\ call.ok
        /\ call.out = FinalSegment(call.arg)

(***************************************************************************)
(* C13: an href without /files/ yields no id; a final segment with a       *)
(* ?verifier= suffix yields the text before the ?, unless that text is     *)
(* download or preview, and then the second-to-last segment; a final       *)
(* segment with a ?wrap= suffix, or with any other suffix, yields no id.   *)
(***************************************************************************)
\* the text of seg before its first ?
BeforeQuery(seg) == SubSeq(seg, 1, FindFirst(seg, <<"?">>) - 1)

\* seg carries a query that starts with mark
HasSuffix(seg, mark) ==
    FindFirst(seg, <<"?">>) # 0 /\ StartsAt(seg, mark, FindFirst(seg, <<"?">>))

SecondToLast(href) == Split(href, <<"/">>)[Len(Split(href, <<"/">>)) - 1]

C13_ResolutionTable ==
    Extracted =>
        LET seg == FinalSegment(call.arg)
        IN  /\ ~Contains(call.arg, FilesSegment) => ~call.ok
            /\ (Contains(call.arg, FilesSegment) /\ HasSuffix(seg, VerifierMark)) =>
                    /\ call.ok
                    /\ call.out = IF BeforeQuery(seg) \in {DownloadWord, PreviewWord}
                                  THEN SecondToLast(call.arg)
                                  ELSE BeforeQuery(seg)
            /\ (Contains(call.arg, FilesSegment) /\ HasSuffix(seg, WrapMark)) => ~call.ok
            /\ ( /\ Contains(call.arg, FilesSegment)
                 /\ FindFirst(seg, <<"?">>) # 0
                 /\ ~HasSuffix(seg, VerifierMark)
                 /\ ~HasSuffix(seg, WrapMark) ) => ~call.ok

\* .../files/7/download?verifier=k has been resolved to 7
C13_Witness ==
    /\ Extracted
    /\ Contains(call.arg, DownloadWord \o VerifierMark)
    /\ call.ok
    /\ call.out = <<"7">>

(***************************************************************************)
(* C14: valid_filetype returns false exactly for the filenames that have a *)
(* trailing extension (the text after the last period) whose lower-cased   *)
(* form is one of mp4, mov, webm, wmv, flv, ogv, avi, and true for every   *)
(* other filename, one with no period at all included.                     *)
(***************************************************************************)
HasPeriod(filename) == \E i \in 1..Len(filename) : filename[i] = "."

\* the text after the last period of a filename that has one
Extension(filename) ==
    LET last == CHOOSE i \in 1..Len(filename) :
                    /\ filename[i] = "."
                    /\ \A j \in (i + 1)..Len(filename) : filename[j] # "."
    IN  SubSeq(filename, last + 1, Len(filename))

C14_FalseExactlyForVideoExtensions ==
    (call.fn = "valid_filetype" /\ call.stage = 1) =>
        ( ~call.ok <=> ( /\ HasPeriod(call.arg)
                         /\ LowerStr(Extension(call.arg)) \in unwanted_filetypes ) )

(***************************************************************************)
(* C15: make_valid_folder_name is idempotent: applied to its own result,   *)
(* with the same is_file flag, it returns that result again.               *)
(***************************************************************************)
C15_SanitizeIsIdempotent ==
    (call.fn = "make_valid_folder_name" /\ call.stage = 2) =>
        /\ call.ok2
        /\ call.out2 = call.out

(***************************************************************************)
(* C16: for every non-empty display name, the result of                    *)
(* make_valid_folder_name for a directory is a valid path segment: it is   *)
(* non-empty, has at most 120 characters, none of them one of              *)
(* \ / : * ? " < > |, has no leading or trailing whitespace and does not   *)
(* end in a period.                                                        *)
(***************************************************************************)
ValidSegment(name) ==
    /\ name # <<>>
    /\ Len(name) <= MaxNameLen
    /\ \A i \in 1..Len(name) : name[i] \notin InvalidChars
    /\ Head(name) \notin Whitespace
    /\ Last(name) \notin Whitespace
    /\ Last(name) # "."

C16_DirectoryNameIsValidSegment ==
    ( /\ call.fn = "make_valid_folder_name"
      /\ call.stage >= 1
      /\ ~call.is_file
      /\ call.arg # <<>> ) =>
        /\ call.ok
        /\ ValidSegment(call.out)

(***************************************************************************)
(* C17: after a failure-free traversal of one course that started from an  *)
(* empty target tree, every eligible remote file reached through a module  *)
(* File item or a link of a module Page exists at                          *)
(* <course>/Modules/<module>/<display name>, every eligible file linked    *)
(* from an assignment description exists at                                *)
(* <course>/Assignments/<assignment>/<display name>, and exactly one local *)
(* file was created per distinct file identity.                            *)
(***************************************************************************)
\* the first run has been through all of course c
Traversed(c) ==
    /\ run = 1
    /\ Courses[c].named
    /\ ~(variant = "batch" /\ Courses[c].id \in skip_course_ids)
    /\ ci > c \/ (ci = c /\ pc = "markdone")

\* no transfer failed, no listing was denied and nothing was raised in it
FailureFree(c) ==
    \A i \in DOMAIN hist :
        (hist[i].run = 1 /\ hist[i].course = c) =>
            \/ hist[i].kind = "transfer" /\ hist[i].ok
            \/ hist[i].kind = "append"

\* the module or assignment that step j of course c belongs to
Header(c, j) ==
    CHOOSE h \in 1..j :
        /\ CourseSteps[c][h].op \in {"module", "assignment", "folder"}
        /\ \A m \in (h + 1)..j :
                CourseSteps[c][m].op \notin {"module", "assignment", "folder"}

\* the id an href refers to: the plain final segment, or what the ?verifier=
\* forms resolve to
LinkedFileId(href) ==
    IF Contains(href, FilesSegment) /\ PlainIdentifier(FinalSegment(href))
    THEN [found |-> TRUE, id |-> FinalSegment(href)]
    ELSE ExtractFileId(href)

\* the file reached at step j through a module item, a page link or an
\* assignment link
ReachedId(c, j) ==
    LET s == CourseSteps[c][j]
    IN  IF CourseSteps[c][Header(c, j)].op = "folder"
        THEN NoId
        ELSE IF s.op = "file"
        THEN [found |-> TRUE, id |-> s.arg]
        ELSE IF s.op = "link" THEN LinkedFileId(s.arg) ELSE NoId

\* <course>/Modules/<module name> or <course>/Assignments/<assignment name>
TargetDir(c, j) ==
    LET h == CourseSteps[c][Header(c, j)]
        section == IF h.op = "module"
                   THEN <<"M", "o", "d", "u", "l", "e", "s">>
                   ELSE <<"A", "s", "s", "i", "g", "n", "m", "e", "n", "t", "s">>
    IN  Join(Join(course_folder_path(Courses[c]), section),
             make_valid_folder_name(h.arg, FALSE))

C17_ReachedFilesAreOnDisk ==
    \A c \in 1..NCourses :
        (Traversed(c) /\ FailureFree(c)) =>
            \A j \in 1..Len(CourseSteps[c]) :
                ( /\ ReachedId(c, j).found
                  /\ ReachedId(c, j).id \in DOMAIN RemoteFiles
                  /\ ValidFile(RemoteFiles[ReachedId(c, j).id]) ) =>
                    LET file == RemoteFiles[ReachedId(c, j).id]
                        at == Norm(Join(TargetDir(c, j),
                                        make_valid_folder_name(file.display_name, TRUE)))
                    IN  /\ at \in DOMAIN files
                        /\ files[at] = file.url
                        /\ Cardinality({ q \in DOMAIN files : files[q] = file.url }) = 1

(***************************************************************************)
(* C18: loading the skip list tolerates a skip_courses.txt that does not   *)
(* exist yet: the load yields the empty set, the file is created, and the  *)
(* run goes on to traverse the courses.                                    *)
(***************************************************************************)
C18_MissingStoreIsTolerated ==
    variant = "batch" =>
        /\ pc # "idle" => skipExists
        /\ \A i \in DOMAIN hist : hist[i].kind = "load_raised" => LoadRaises(skipText)
        /\ (pc = "courses" /\ ci = 1 /\ skipText = <<>>) => skip_course_ids = {}

(***************************************************************************)
(* C19: the batch and the GUI program are equivalent in download logic:    *)
(* from the same disk, ledger and remote file, the download_file of either *)
(* invokes the same transfer (same file, same target path) and leaves the  *)
(* same directories and files, although they test file type, directory    *)
(* and path in different orders.                                           *)
(***************************************************************************)
C19_SameDownloadLogic ==
    (pc = "steps" /\ StepAcquires(ci, k)) =>
        \A outcome \in Outcomes :
            download_file_batch(StepFile(ci, k), CurrentStep.dir, course_items_urls,
                                dirs, files, outcome)
            = download_file_gui(StepFile(ci, k), CurrentStep.dir, course_items_urls,
                                dirs, files, outcome)

\* the traversal has handed download_file a file of an unwanted type, a file
\* whose target path was taken and a file that was then transferred
C19_Witness ==
    /\ pc = "steps"
    /\ \E j \in 1..(k - 1) :
          StepAcquires(ci, j) /\ ~ValidFile(StepFile(ci, j))
    /\ \E j \in 1..(k - 1) :
          /\ StepAcquires(ci, j)
          /\ StepFile(ci, j).url \notin course_items_urls
          /\ ValidFile(StepFile(ci, j))
          /\ StepPath(ci, j) \in DOMAIN files
          /\ files[StepPath(ci, j)] # StepFile(ci, j).url
    /\ \E i \in Transfers : hist[i].ok /\ hist[i].run = run /\ hist[i].course = ci

(***************************************************************************)
(* C20: when two remote files with distinct identities and the same        *)
(* sanitized display name are acquired into the same directory and the     *)
(* first transfer succeeded, the second file is taken as downloaded: no    *)
(* transfer is invoked for it, its identity does not enter the ledger, no  *)
(* error is reported and the file on disk keeps the first file's content.  *)
(***************************************************************************)
\* step j of the current course hands download_file a file whose target path
\* holds another file, transferred earlier in this traversal
Collides(j) ==
    /\ StepAcquires(ci, j)
    /\ StepFile(ci, j).url \notin course_items_urls
    /\ StepPath(ci, j) \in DOMAIN files
    /\ files[StepPath(ci, j)] # StepFile(ci, j).url
    /\ \E i \in Transfers :
          /\ hist[i].ok /\ hist[i].run = run /\ hist[i].course = ci
          /\ hist[i].step < j
          /\ hist[i].path = StepPath(ci, j)
          /\ hist[i].url = files[StepPath(ci, j)]

C20_CollisionStep ==
    (pc = "steps" /\ Collides(k) /\ ~KillStep) =>
        /\ UNCHANGED <<files, hist>>
        /\ StepFile(ci, k).url \notin course_items_urls'
        /\ report' \notin FailureReports \cup {"traceback"}
        /\ pc' # "crashed"

C20_SecondFileIsDropped == [][C20_CollisionStep]_vars

\* the traversal is past a step that collided
C20_Witness ==
    /\ pc = "steps"
    /\ \E j \in 1..(k - 1) : Collides(j)

(***************************************************************************)
(* C21: for a directory name that, after truncation, character replacement *)
(* and whitespace stripping, ends in two or more consecutive periods,      *)
(* make_valid_folder_name removes exactly that trailing run of periods and *)
(* keeps everything before it, also when the name holds an earlier run of  *)
(* two periods (a..b.. gives a..b); when it ends in exactly one period,    *)
(* only that period is dropped.                                            *)
(***************************************************************************)
\* the number of periods at the end of s
TrailingRun(s) ==
    CHOOSE n \in 0..Len(s) :
        /\ \A i \in (Len(s) - n + 1)..Len(s) : s[i] = "."
        /\ n < Len(s) => s[Len(s) - n] # "."

C21_TrailingRunIsRemoved ==
    ( /\ call.fn = "make_valid_folder_name"
      /\ call.stage >= 1
      /\ ~call.is_file
      /\ TrailingRun(Stripped(call.arg)) >= 1 ) =>
        /\ call.ok
        /\ call.out = SubSeq(Stripped(call.arg), 1,
                             Len(Stripped(call.arg)) - TrailingRun(Stripped(call.arg)))

(***************************************************************************)
(* C22: make_valid_folder_name fails when its input is empty after         *)
(* truncation, for both values of is_file, instead of returning a name.    *)
(* (The only failure the code has is the IndexError of output[-1]; the     *)
(* formula asks for a failure of any kind.)                                *)
(***************************************************************************)
C22_EmptyInputFails ==
    ( /\ call.fn = "make_valid_folder_name"
      /\ call.stage >= 1
      /\ call.arg = <<>> ) =>
        ~call.ok

(***************************************************************************)
(* C23: the skip list is append-only: at every point of a batch run the    *)
(* persisted content of skip_courses.txt is the content it had at startup  *)
(* followed by the ids of the courses completed so far, in the order in    *)
(* which they were completed; no earlier entry is removed, rewritten or    *)
(* reordered, and an append is persisted before the next course begins.    *)
(***************************************************************************)
\* the lines of the append events among the first n events of the history
RECURSIVE AppendedText(_)
AppendedText(n) ==
    IF n = 0
    THEN <<>>
    ELSE AppendedText(n - 1)
         \o (IF hist[n].kind = "append" THEN SkipLine(Courses[hist[n].course].id) ELSE <<>>)

\* the durable content is what the user started with and then the line of
\* every completed course, in the order of completion; nothing is pending
C23_ContentIsStartupThenAppends ==
    variant = "batch" =>
        /\ buffer = <<>>
        /\ \E startup \in InitialSkipTexts :
              skipText = startup \o AppendedText(Len(hist))

\* a step changes the durable content only by completing a course, and then
\* by adding that course's line at the end
C23_AppendStep ==
    variant = "batch" =>
        IF pc = "markdone" /\ ~KillStep
        THEN /\ skipText' = skipText \o SkipLine(current_course.id)
             /\ buffer' = <<>>
             /\ pc' = "courses"
        ELSE skipText' = skipText

C23_SkipListIsAppendOnly ==
    [](C23_ContentIsStartupThenAppends) /\ [][C23_AppendStep]_vars

\* one batch run that started with an empty list has completed two courses
C23_Witness ==
    /\ variant = "batch"
    /\ \E i, j \in Appends :
          /\ i < j
          /\ hist[i].run = hist[j].run
          /\ skipText = SkipLine(Courses[hist[i].course].id)
                         \o SkipLine(Courses[hist[j].course].id)

(***************************************************************************)
(* C24: download_file on a file that valid_filetype rejects is a no-op in  *)
(* both programs: no transfer is invoked, the target directory is not      *)
(* created and the ledger is unchanged; hence in every reachable state no  *)
(* file with a video extension has been transferred.                       *)
(***************************************************************************)
\* the urls of the remote files whose filename ends in a period and one of
\* the unwanted extensions, in any case of the letters
VideoUrls ==
    { RemoteFiles[i].url : i \in { j \in DOMAIN RemoteFiles :
          /\ HasPeriod(RemoteFiles[j].filename)
          /\ LowerStr(Extension(RemoteFiles[j].filename)) \in unwanted_filetypes } }

C24_RejectedStep ==
    ( /\ pc = "steps"
      /\ StepAcquires(ci, k)
      /\ ~ValidFile(StepFile(ci, k))
      /\ ~KillStep ) =>
        /\ UNCHANGED <<course_items_urls, dirs, files, hist>>
        /\ pc' # "crashed"
        /\ report' \notin FailureReports

C24_NoVideoTransferred ==
    /\ \A i \in Transfers : hist[i].url \notin VideoUrls
    /\ \A p \in DOMAIN files : files[p] \notin VideoUrls

C24_RejectedFileIsNoOp ==
    [](C24_NoVideoTransferred) /\ [][C24_RejectedStep]_vars

\* the traversal is past a step that handed download_file a video that the
\* ledger does not hold, for a directory that does not exist
C24_Witness ==
    /\ pc = "steps"
    /\ \E j \in 1..(k - 1) :
          /\ StepAcquires(ci, j)
          /\ ~ValidFile(StepFile(ci, j))
          /\ StepFile(ci, j).url \in VideoUrls
          /\ StepFile(ci, j).url \notin course_items_urls
          /\ ~Exists(Norm(CourseSteps[ci][j].dir), dirs, files)

(***************************************************************************)
(* C25: in the GUI program, after any sequence of presses of the download  *)
(* button, at most one background worker running download_materials has    *)
(* ever been started in the window: a press that finds the flag set starts *)
(* nothing and changes nothing, so no two transfers are in flight and the  *)
(* transfers of a run follow one another in the order of the traversal.    *)
(***************************************************************************)
C25_AtMostOneWorker ==
    /\ gui.workers <= 1
    /\ gui.download_button_pressed <=> gui.workers = 1
    /\ \A j \in Transfers : \A i \in 1..(j - 1) :
          (hist[i].kind = "transfer" /\ hist[i].run = hist[j].run) =>
              \/ hist[i].course < hist[j].course
              \/ hist[i].course = hist[j].course /\ hist[i].step < hist[j].step

\* a press of the button in a window whose flag is set
C25_LaterPress ==
    ( /\ variant = "gui"
      /\ gui.download_button_pressed
      /\ run' = run
      /\ gui' # gui ) =>
        /\ gui'.workers = gui.workers
        /\ UNCHANGED <<pc, ci, k, course_items_urls, dirs, files, report, hist>>

C25_OneWorkerEver == [](C25_AtMostOneWorker) /\ [][C25_LaterPress]_vars

\* the button was pressed again while the worker was in a traversal that
\* had already transferred a file
C25_Witness ==
    /\ variant = "gui"
    /\ pc = "steps"
    /\ gui.ignored
    /\ gui.workers = 1
    /\ \E i \in Transfers : hist[i].ok /\ hist[i].run = run /\ hist[i].course = ci

(***************************************************************************)
(* C26: at every point of a course's traversal the ledger holds exactly    *)
(* the identities of the files whose transfer succeeded during this        *)
(* traversal of this course: it starts empty for each course, an identity  *)
(* is added only right after a successful transfer, and never when a file  *)
(* is skipped (ledger hit, existing path, rejected file type) or when its  *)
(* transfer fails.                                                         *)
(***************************************************************************)
\* the urls transferred successfully in the traversal under way
SucceededHere ==
    { hist[i].url : i \in { t \in Transfers :
          hist[t].ok /\ hist[t].run = run /\ hist[t].course = ci } }

C26_LedgerIsSuccesses ==
    pc \in {"steps", "markdone"} => course_items_urls = SucceededHere

\* the ledger changes only when a course begins, and then it is empty, or
\* with a successful transfer, and then by the url transferred
C26_LedgerStep ==
    (course_items_urls' # course_items_urls /\ run' = run) =>
        \/ /\ pc = "courses"
           /\ pc' \in {"steps", "markdone", "courses"}
           /\ course_items_urls' = {}
        \/ /\ pc = "steps"
           /\ Logged("transfer")
           /\ Last(hist').ok
           /\ Last(hist').url = StepFile(ci, k).url
           /\ course_items_urls' = course_items_urls \cup {StepFile(ci, k).url}

C26_LedgerIsExact == [](C26_LedgerIsSuccesses) /\ [][C26_LedgerStep]_vars

\* the traversal under way has had a successful transfer, a failed one, a
\* ledger hit, an occupied path and a rejected file
C26_Witness ==
    /\ pc = "steps"
    /\ course_items_urls # {}
    /\ \E i \in Transfers : ~hist[i].ok /\ hist[i].run = run /\ hist[i].course = ci
    /\ \E j \in 1..(k - 1) :
          /\ StepAcquires(ci, j)
          /\ \E i \in Transfers :
                /\ hist[i].ok /\ hist[i].run = run /\ hist[i].course = ci
                /\ hist[i].step < j
                /\ hist[i].url = StepFile(ci, j).url
    /\ \E j \in 1..(k - 1) : Collides(j)
    /\ \E j \in 1..(k - 1) : StepAcquires(ci, j) /\ ~ValidFile(StepFile(ci, j))

====
